---- MODULE Spec2Model ----
(***************************************************************************)
(* AvrTimers: the three timer controllers (AvrTimer0, AvrTimer1,           *)
(* AvrTimer2), their divisor resolvers, the shared task scheduler and the  *)
(* millis emulator of AvrTimerBase.                                        *)
(*                                                                         *)
(* Hardware registers are modelled as records of their bit fields, the     *)
(* interrupt mask and flag registers as sets of bit names.  Objects have   *)
(* static storage duration (examples/avr/main.cpp:14-16), so every member  *)
(* the constructors leave alone starts as zero.                            *)
(***************************************************************************)
EXTENDS Integers, Sequences, FiniteSets, TLC

VARIABLES
    DEBUG_AVRTIMERS,   \* build flag (AvrTimers.h), fixed per build
    F_CPU,             \* build constant: CPU clock in Hz
    inst,              \* the controllers the application instantiates
    self,              \* self[t]: the members of controller t
    tc,                \* tc[t]: the registers of Timer/Counter t
    PRR,               \* power reduction register: set of PRTIMn bits set
    ASSR,              \* Timer2 async status: [AS2, busy]
    subms,             \* static local of AvrTimerBase::call_tasks
    precount,          \* static local of AvrTimer2::call_tasks
    timer0_millis,     \* the system millis counter
    pc,                \* pc[t]: where the code of controller t stands
    lastBegin,         \* the latest begin(): its arguments and results
    nDisp,             \* nDisp[t]: completed AvrTimerBase::call_tasks
    nIrq,              \* nIrq[t]: interrupts served
    regAt,             \* regAt[t][i]: nDisp[t] when slot i was registered
    reg,               \* reg[t][i]: what add_task was given for slot i
    fired,             \* fired[t][i]: invocations of the task in slot i
    calls,             \* the callbacks invoked by the last interrupt
    dropped,           \* add_task calls dropped for lack of a slot
    cfgAt,             \* cfgAt[t]: the last successful begin of t
    nBegin,            \* begin() calls made
    pin,               \* pin[p]: the port latch of output pin p
    SREG_I,            \* the global interrupt enable flag
    rd,                \* the foreground reader of a millisecond counter
    held,              \* held[c]: values counter c held after an update
    stopAt,            \* stopAt[t]: nDisp[t] at the latest stop()
    lastPwm,           \* the latest setPWM call
    nPwm,              \* setPWM calls made
    stack,             \* the dispatches in progress, innermost last
    ad                 \* the add_task call in progress

vars == << DEBUG_AVRTIMERS, F_CPU, inst, self, tc, PRR, ASSR, subms,
           precount, timer0_millis, pc, lastBegin, nDisp, nIrq, regAt, reg,
           fired, calls, dropped, cfgAt, nBegin, pin, SREG_I, rd, held,
           stopAt, lastPwm, nPwm, stack, ad >>

buildVars == << DEBUG_AVRTIMERS, F_CPU, inst >>
schedGhost == << regAt, reg, fired, calls, dropped >>
tickVars == << subms, precount, timer0_millis, nDisp, nIrq, held >>
apiVars == << pin, SREG_I, rd, lastPwm, nPwm, stack, ad >>

-----------------------------------------------------------------------------
(* Bounds *)

MaxTicks == 4          \* dispatches per run
MaxScale == 2          \* largest period divisor given to add_task
MaxBegin == 2          \* begin() calls per run
MaxDrop == 1           \* add_task calls made when the list is full
MaxPwm == 2            \* setPWM calls per run
MaxRead == 1           \* reads of a millisecond counter per run
MaxNest == 2           \* handlers of one timer in progress at a time
MaxAdd == 2            \* add_task calls made while the timer runs

-----------------------------------------------------------------------------
(* Program constants *)

MAX_TIMER_TASKS == 4
NULL == "NULL"
Timers == {0, 1, 2}

\* enum Polarity { ActiveHigh=1, Disabled=0, ActiveLow=-1 }
ActiveHigh == 1
Disabled == 0
ActiveLow == -1
Polarity == {ActiveHigh, Disabled, ActiveLow}

U8(x) == x % 256
U16(x) == x % 65536

\* prescaler per clock-select value; index 0 is the entry the header gives
T0_div == << 1, 1, 8, 64, 256, 1024 >>
T1_div == << 1, 1, 8, 64, 256, 1024 >>
T2_div == << 1, 1, 8, 32, 64, 128, 256, 1024 >>

\* C arrays are indexed from 0
At(tab, c) == tab[c + 1]

\* compare-register limits used by the resolvers
Fit8 == 256
Fit16 == 32767

\* Unsigned division.  Division by zero is undefined: the result is any
\* value; all-zeros and all-ones (kept within TLC's integers) stand for it.
DivZeroOutcomes == {0, 2147483647}
UDiv(a, b) == IF b = 0 THEN DivZeroOutcomes ELSE {a \div b}

-----------------------------------------------------------------------------
(* Divisor resolvers *)

AvrTimer0_calc_cs(fclk, rate) ==
    IF      fclk \div (rate * At(T0_div, 1)) < Fit8 THEN 1
    ELSE IF fclk \div (rate * At(T0_div, 2)) < Fit8 THEN 2
    ELSE IF fclk \div (rate * At(T0_div, 3)) < Fit8 THEN 3
    ELSE IF fclk \div (rate * At(T0_div, 4)) < Fit8 THEN 4
    ELSE IF fclk \div (rate * At(T0_div, 5)) < Fit8 THEN 5
    ELSE 0

\* the resolver returning the register value instead of the compare value
AvrTimer0_calc_ocr_reg(fclk, rate) ==
    LET cs == AvrTimer0_calc_cs(fclk, rate)
    IN  IF cs # 0 THEN U8(fclk \div (rate * At(T0_div, cs)) - 1) ELSE 0

AvrTimer0_calc_ocr(fclk, rate) ==
    LET cs == AvrTimer0_calc_cs(fclk, rate)
    IN  IF cs # 0 THEN U8(fclk \div (rate * At(T0_div, cs))) ELSE 0

AvrTimer1_calc_cs(fclk, rate) ==
    IF      fclk \div (rate * At(T1_div, 1)) < Fit16 THEN 1
    ELSE IF fclk \div (rate * At(T1_div, 2)) < Fit16 THEN 2
    ELSE IF fclk \div (rate * At(T1_div, 3)) < Fit16 THEN 3
    ELSE IF fclk \div (rate * At(T1_div, 4)) < Fit16 THEN 4
    ELSE IF fclk \div (rate * At(T1_div, 5)) < Fit16 THEN 5
    ELSE 0

AvrTimer1_calc_ocr(fclk, rate) ==
    LET cs == AvrTimer1_calc_cs(fclk, rate)
    IN  IF cs # 0 THEN U16(fclk \div (rate * At(T1_div, cs))) ELSE 0

AvrTimer2_calc_cs(fclk, rate) ==
    IF      fclk \div (rate * At(T2_div, 1)) < Fit8 THEN 1
    ELSE IF fclk \div (rate * At(T2_div, 2)) < Fit8 THEN 2
    ELSE IF fclk \div (rate * At(T2_div, 3)) < Fit8 THEN 3
    ELSE IF fclk \div (rate * At(T2_div, 4)) < Fit8 THEN 4
    ELSE IF fclk \div (rate * At(T2_div, 5)) < Fit8 THEN 5
    ELSE IF fclk \div (rate * At(T2_div, 6)) < Fit8 THEN 6
    ELSE 0

\* floor(fclk / pre / rate + 0.5), computed exactly.  The conversion of a
\* value above 255 to uint8_t is undefined: it wraps or it saturates.
AvrTimer2_calc_ocr(fclk, rate) ==
    LET cs   == AvrTimer2_calc_cs(fclk, rate)
        pre  == At(T2_div, cs)
        _ocr == (2 * fclk + rate * pre) \div (2 * rate * pre)
    IN  IF cs = 0 THEN {0}
        ELSE IF _ocr < 256 THEN {_ocr}
        ELSE {U8(_ocr), 255}

AvrTimer2_calc_pre(rate, tickrate) == U8(rate \div tickrate)

-----------------------------------------------------------------------------
(* State after construction *)

Slots == 0 .. (MAX_TIMER_TASKS - 1)

\* a task_t of zero-initialised storage
NoTask == [callback |-> NULL, scale |-> 0, count |-> 0, arg |-> NULL]

\* AvrTimerBase::AvrTimerBase sets m_millis and m_handle_millis,
\* AvrTimer1::AvrTimer1 sets m_enableA and m_enableB; the rest is zero.
Constructed ==
    [m_millis |-> 0, m_handle_millis |-> FALSE,
     m_tasks |-> [i \in Slots |-> NoTask], m_nTasks |-> 0,
     m_MillisPerTick |-> 0, m_TicksPerMilli |-> 0,
     m_ocr |-> 0, m_top |-> 0,
     m_enableA |-> FALSE, m_enableB |-> FALSE,
     m_polA |-> Disabled, m_polB |-> Disabled, m_comA |-> 0, m_comB |-> 0,
     m_async |-> FALSE, m_prescale |-> 0, m_isr |-> NULL]

\* registers of a Timer/Counter after reset.  TOP is the register that holds
\* the period: OCR0A, ICR1, OCR2A; OCRA is OCR1A, OCRB is OCR0B and OCR1B.
ResetRegs ==
    [TIMSK |-> {}, TIFR |-> {},
     TCCRA |-> [COMA |-> 0, COMB |-> 0, WGM |-> 0],
     TCCRB |-> [CS |-> 0, WGM2 |-> 0],
     TOP |-> 0, OCRA |-> 0, OCRB |-> 0]

PRTIM(t) == CASE t = 0 -> "PRTIM0" [] t = 1 -> "PRTIM1" [] OTHER -> "PRTIM2"
\* the interrupt each controller uses: its enable bit and its flag
IE(t) == CASE t = 0 -> "OCIE0A" [] t = 1 -> "TOIE1" [] OTHER -> "OCIE2A"
IF_(t) == CASE t = 0 -> "OCF0A" [] t = 1 -> "TOV1" [] OTHER -> "OCF2A"

Clocks == {8000000, 16000000}
WatchCrystal == 32768

NoOp == [op |-> "none", t |-> 0, rate |-> 0, fclk |-> 0, cs |-> 0,
         ocr |-> 0, initRet |-> 0, ret |-> 0]
NoCfg == [ok |-> FALSE, tick |-> 0, millis |-> 0, disp |-> 0]

\* the PWM output pins
Pins == {"OC0B", "OC1A", "OC1B"}

\* the counters foreground code reads: m_millis of a controller and
\* timer0_millis
Sys == 3
Counters == Timers \cup {Sys}

NoRead == [pc |-> "idle", c |-> 0, temp |-> 0, sreg |-> TRUE, ret |-> 0,
           n |-> 0]
NoAdd == [pc |-> "idle", t |-> 0, n |-> 0, scale |-> 0, callback |-> NULL,
          arg |-> NULL, todo |-> {}]
NoPwm == [t |-> 0, ch |-> "none", pwm |-> 0, top |-> 0, begins |-> 0,
          same |-> FALSE]

\* the state after construction of an application with controllers I
InitFor(I) ==
    /\ DEBUG_AVRTIMERS \in {0, 1}
    /\ F_CPU \in Clocks
    /\ inst = I
    /\ self = [t \in Timers |-> Constructed]
    /\ tc = [t \in Timers |-> ResetRegs]
    /\ PRR \in {{}, {PRTIM(t) : t \in Timers}}
    /\ ASSR = [AS2 |-> FALSE, busy |-> {}]
    /\ subms = 0
    /\ precount = 1
    /\ timer0_millis = 0
    /\ pc = [t \in Timers |-> "idle"]
    /\ lastBegin = NoOp
    /\ nDisp = [t \in Timers |-> 0]
    /\ nIrq = [t \in Timers |-> 0]
    /\ regAt = [t \in Timers |-> [i \in Slots |-> 0]]
    /\ reg = [t \in Timers |-> [i \in Slots |-> NoTask]]
    /\ fired = [t \in Timers |-> [i \in Slots |-> 0]]
    /\ calls = << >>
    /\ dropped = 0
    /\ cfgAt = [t \in Timers |-> NoCfg]
    /\ nBegin = 0
    /\ pin = [p \in Pins |-> 0]
    /\ SREG_I = TRUE
    /\ rd = NoRead
    /\ held = [c \in Counters |-> {0}]
    /\ stopAt = [t \in Timers |-> -1]
    /\ lastPwm = NoPwm
    /\ nPwm = 0
    /\ stack = << >>
    /\ ad = NoAdd

\* an application with one controller
Init == \E t \in Timers : InitFor({t})

\* foreground code runs: it is not spinning in init and no handler is active
AllIdle ==
    /\ rd.pc = "idle" /\ ad.pc = "idle" /\ stack = << >>
    /\ \A t \in Timers : pc[t] = "idle"

-----------------------------------------------------------------------------
(* begin() and init() *)

\* what a caller of a void function receives
VOID == -1

BeginOp(t, rate, fclk, cs, ocr, arate) ==
    [op |-> "begin", t |-> t, rate |-> rate, fclk |-> fclk, cs |-> cs,
     ocr |-> ocr, initRet |-> arate, ret |-> VOID]

\* the divisor tables local to AvrTimer0::init and AvrTimer1::init
init_T0_div == << 0, 1, 8, 64, 256, 1024 >>
init_T1_div == << 0, 1, 8, 64, 256, 1024 >>

\* init without its early return
RateTooLow_never(cs) == FALSE

\* if (cs==0) return 0;
RateTooLow(cs) == cs = 0

\* init that leaves the interrupt mask as it finds it
InitMask_kept(mask) == mask

\* TIMSKn = 0;
InitMask(mask) == {}

\* m_comB = polB ? ((polB==ActiveHigh) ? 2 : 3 ) : 0;
ComOf(pol) == IF pol # 0 THEN (IF pol = ActiveHigh THEN 2 ELSE 3) ELSE 0

\* The #if DEBUG_AVRTIMERS block of init in a build with DEBUG_AVRTIMERS set
\* to debug: the values the two rate fields may get for tick rate atick,
\* given the values they hold.
MillisRatesIn(debug, t, atick) ==
    IF debug = 0
    THEN {[m_MillisPerTick |-> self[t].m_MillisPerTick,
           m_TicksPerMilli |-> self[t].m_TicksPerMilli]}
    ELSE IF atick <= 1000
    THEN {[m_MillisPerTick |-> U8(q), m_TicksPerMilli |-> 1] :
              q \in UDiv(1000, atick)}
    ELSE {[m_MillisPerTick |-> 0, m_TicksPerMilli |-> U8(atick \div 1000)]}

\* the block as the build at hand compiles it
MillisRates(t, atick) == MillisRatesIn(DEBUG_AVRTIMERS, t, atick)

Configured(t, atick) ==
    [ok |-> TRUE, tick |-> atick, millis |-> self[t].m_millis,
     disp |-> nDisp[t]]

\* a begin() whose init returns at once: only the call is recorded
BeginFails(t, rate, fclk) ==
    /\ lastBegin' = BeginOp(t, rate, fclk, 0, 0, 0)
    /\ UNCHANGED << self, tc, PRR, ASSR, cfgAt, pc >>

AvrTimer0_init(rate, cs, ocr, polB) ==
    IF RateTooLow(cs) THEN BeginFails(0, rate, F_CPU)
    ELSE
      \E arate \in UDiv(F_CPU, At(init_T0_div, cs) * ocr) :
      \E mr \in MillisRates(0, arate) :
        LET comB == ComOf(polB)
            wgm  == IF comB = 0 THEN 2 ELSE 7
        IN
        /\ PRR' = PRR \ {PRTIM(0)}
        /\ self' = [self EXCEPT ![0] =
                      [@ EXCEPT !.m_polB = polB, !.m_comB = comB,
                                !.m_ocr = U8(ocr - 1),
                                !.m_MillisPerTick = mr.m_MillisPerTick,
                                !.m_TicksPerMilli = mr.m_TicksPerMilli]]
        /\ tc' = [tc EXCEPT ![0] =
                      [@ EXCEPT
                       !.TIMSK = InitMask(@),
                       !.TCCRA = [COMA |-> 0, COMB |-> comB, WGM |-> wgm % 4],
                       !.TCCRB = [CS |-> cs, WGM2 |-> wgm \div 4],
                       !.TOP = U8(ocr - 1),
                       !.TIFR = @ \ {"TOV0", "OCF0A", "OCF0B"}]]
        /\ cfgAt' = [cfgAt EXCEPT ![0] = Configured(0, arate)]
        /\ lastBegin' = BeginOp(0, rate, F_CPU, cs, ocr, arate)
        /\ UNCHANGED << ASSR, pc >>

T1WGM == 14

AvrTimer1_init(rate, cs, ocr, polA, polB) ==
    IF RateTooLow(cs) THEN BeginFails(1, rate, F_CPU)
    ELSE
      \E arate \in UDiv(F_CPU, At(init_T1_div, cs) * ocr) :
      \E mr \in MillisRates(1, arate) :
        LET comA == ComOf(polA)
            comB == ComOf(polB)
        IN
        /\ PRR' = PRR \ {PRTIM(1)}
        /\ self' = [self EXCEPT ![1] =
                      [@ EXCEPT !.m_polA = polA, !.m_polB = polB,
                                !.m_comA = comA, !.m_comB = comB,
                                !.m_top = U16(ocr - 1),
                                !.m_MillisPerTick = mr.m_MillisPerTick,
                                !.m_TicksPerMilli = mr.m_TicksPerMilli]]
        /\ tc' = [tc EXCEPT ![1] =
                      [@ EXCEPT
                       !.TIMSK = InitMask(@),
                       !.TCCRA = [COMA |-> comA, COMB |-> comB,
                                  WGM |-> T1WGM % 4],
                       !.TCCRB = [CS |-> 1, WGM2 |-> T1WGM \div 4],
                       !.TOP = U16(ocr - 1),
                       !.TIFR = {}]]
        /\ cfgAt' = [cfgAt EXCEPT ![1] = Configured(1, arate)]
        /\ lastBegin' = BeginOp(1, rate, F_CPU, cs, ocr, arate)
        /\ UNCHANGED << ASSR, pc >>

\* In asynchronous mode a write to TCCR2A, TCCR2B or OCR2A raises the
\* register's update-busy bit until the write has crossed the clock domain.
BusyAfter(as2, busy, written) == IF as2 THEN busy \cup written ELSE busy

\* the bits AvrTimer2::init waits for
InitWaitBits == {"TCN2UB", "OCR2AUB", "TCR2AUB"}

\* AvrTimer2::init from the line after the wait: clear the flags, compute
\* the rates.  cs, ocr and fclk are the call's arguments.
AvrTimer2_init_finish(rate, cs, ocr, fclk, me, regs) ==
    \E arate \in UDiv(fclk, At(T2_div, cs) * ocr) :
    \E atick \in UDiv(arate, me.m_prescale) :
    \E mr \in MillisRates(2, atick) :
        /\ self' = [self EXCEPT ![2] =
                      [me EXCEPT !.m_MillisPerTick = mr.m_MillisPerTick,
                                 !.m_TicksPerMilli = mr.m_TicksPerMilli]]
        /\ tc' = [tc EXCEPT ![2] =
                    [regs EXCEPT !.TIFR = @ \ {"TOV2", "OCF2A", "OCF2B"}]]
        /\ cfgAt' = [cfgAt EXCEPT ![2] = Configured(2, atick)]
        /\ lastBegin' = BeginOp(2, rate, fclk, cs, ocr, arate)
        /\ pc' = [pc EXCEPT ![2] = "idle"]

AvrTimer2_init(rate, cs, ocr, pre, isr, fclk, async) ==
    IF RateTooLow(cs) THEN BeginFails(2, rate, fclk)
    ELSE
      LET as2  == ASSR.AS2 \/ async
          me   == [self[2] EXCEPT !.m_prescale = pre, !.m_async = async,
                                  !.m_isr = isr, !.m_ocr = U8(ocr - 1)]
          regs == [tc[2] EXCEPT
                      !.TIMSK = InitMask(@),
                      !.TCCRA = [COMA |-> 0, COMB |-> 0, WGM |-> 2],
                      !.TCCRB = [CS |-> cs, WGM2 |-> 0],
                      !.TOP = U8(ocr - 1)]
      IN
      /\ PRR' = PRR \ {PRTIM(2)}
      /\ ASSR' = [AS2 |-> as2,
                  busy |-> BusyAfter(as2, ASSR.busy,
                                     {"TCR2AUB", "TCR2BUB", "OCR2AUB"})]
      /\ IF async /\ (ASSR'.busy \cap InitWaitBits) # {}
         THEN \* while (ASSR & (TCN2UB|OCR2AUB|TCR2AUB)) {}
              /\ self' = [self EXCEPT ![2] = me]
              /\ tc' = [tc EXCEPT ![2] = regs]
              /\ pc' = [pc EXCEPT ![2] = "init_wait"]
              /\ lastBegin' = BeginOp(2, rate, fclk, cs, ocr, 0)
              /\ UNCHANGED cfgAt
         ELSE AvrTimer2_init_finish(rate, cs, ocr, fclk, me, regs)

-----------------------------------------------------------------------------
(* Inputs *)

Rates == {10, 100, 300, 1000, 1500, 20000000}
Pols0 == Polarity
Pols1 == {<< Disabled, Disabled >>, << ActiveHigh, Disabled >>,
          << ActiveLow, ActiveHigh >>}
Callbacks == {NULL, "my_cb"}
\* the argument of the k-th add_task call: every call passes its own object
ArgOf(k) == "obj" \o ToString(k)
Scales == 1 .. MaxScale

\* the arguments of AvrTimer2::begin tried; fclk defaults to F_CPU
T2Args ==
    {[rate |-> r, tickrate |-> 0, isr |-> NULL, fclk |-> F_CPU,
      async |-> FALSE] : r \in Rates}
    \cup {[rate |-> 100, tickrate |-> 0, isr |-> "my_isr",
           fclk |-> WatchCrystal, async |-> TRUE],
          [rate |-> 1000, tickrate |-> 500, isr |-> "my_isr",
           fclk |-> F_CPU, async |-> FALSE],
          [rate |-> 1024, tickrate |-> 2, isr |-> NULL,
           fclk |-> WatchCrystal, async |-> TRUE]}

-----------------------------------------------------------------------------
(* Foreground operations *)

Begin0(rate, polB) ==
    /\ 0 \in inst /\ AllIdle /\ nBegin < MaxBegin
    /\ nBegin' = nBegin + 1
    /\ AvrTimer0_init(rate, AvrTimer0_calc_cs(F_CPU, rate),
                      AvrTimer0_calc_ocr(F_CPU, rate), polB)
    /\ UNCHANGED << buildVars, apiVars, stopAt, tickVars, schedGhost >>

Begin1(rate, polA, polB) ==
    /\ 1 \in inst /\ AllIdle /\ nBegin < MaxBegin
    /\ nBegin' = nBegin + 1
    /\ AvrTimer1_init(rate, AvrTimer1_calc_cs(F_CPU, rate),
                      AvrTimer1_calc_ocr(F_CPU, rate), polA, polB)
    /\ UNCHANGED << buildVars, apiVars, stopAt, tickVars, schedGhost >>

Begin2(a) ==
    /\ 2 \in inst /\ AllIdle /\ nBegin < MaxBegin
    /\ nBegin' = nBegin + 1
    /\ \E ocr \in AvrTimer2_calc_ocr(a.fclk, a.rate) :
         AvrTimer2_init(a.rate, AvrTimer2_calc_cs(a.fclk, a.rate), ocr,
                        AvrTimer2_calc_pre(a.rate,
                            IF a.tickrate # 0 THEN a.tickrate ELSE a.rate),
                        a.isr, a.fclk, a.async)
    /\ UNCHANGED << buildVars, apiVars, stopAt, tickVars, schedGhost >>

\* AvrTimer2::init leaves its wait
InitFinish2 ==
    /\ pc[2] = "init_wait"
    /\ (ASSR.busy \cap InitWaitBits) = {}
    /\ AvrTimer2_init_finish(lastBegin.rate, lastBegin.cs, lastBegin.ocr,
                             lastBegin.fclk, self[2], tc[2])
    /\ UNCHANGED << buildVars, apiVars, stopAt,
                    tickVars, schedGhost, PRR, ASSR, nBegin >>

\* start() that also restarts the periods of the tasks
Start_reset(t) ==
    /\ t \in inst /\ AllIdle
    /\ tc' = [tc EXCEPT ![t].TIFR = @ \ {IF_(t)}, ![t].TIMSK = {IE(t)}]
    /\ self' = [self EXCEPT ![t].m_tasks =
                    [i \in Slots |-> [@[i] EXCEPT !.count = 0]]]
    /\ UNCHANGED << buildVars, apiVars, stopAt, tickVars, schedGhost, PRR,
                    ASSR, pc, cfgAt, nBegin, lastBegin >>

Start(t) ==
    /\ t \in inst /\ AllIdle
    /\ tc' = [tc EXCEPT ![t].TIFR = @ \ {IF_(t)}, ![t].TIMSK = {IE(t)}]
    /\ UNCHANGED << buildVars, apiVars, stopAt,
                    tickVars, schedGhost, self, PRR, ASSR, pc,
                    cfgAt, nBegin, lastBegin >>

Stop(t) ==
    /\ t \in inst /\ AllIdle
    /\ tc' = [tc EXCEPT ![t].TIMSK = @ \ {IE(t)}]
    /\ stopAt' = [stopAt EXCEPT ![t] = nDisp[t]]
    /\ UNCHANGED << buildVars, apiVars,
                    tickVars, schedGhost, self, PRR, ASSR, pc,
                    cfgAt, nBegin, lastBegin >>

\* the capacity test off by one
HasRoom_le(n) == n <= MAX_TIMER_TASKS

\* if (m_nTasks < MAX_TIMER_TASKS)
HasRoom(n) == n < MAX_TIMER_TASKS

\* the slot add_task writes
SlotFor(n) == n

AddTask(t, scale, cb, arg) ==
    /\ t \in inst /\ AllIdle
    /\ LET n == self[t].m_nTasks IN
       IF HasRoom(n)
       THEN /\ self' = [self EXCEPT
                  ![t].m_tasks[SlotFor(n)] =
                      [count |-> 0, scale |-> scale, callback |-> cb,
                       arg |-> arg],
                  ![t].m_nTasks = U8(n + 1)]
            /\ reg' = [reg EXCEPT ![t][n] =
                  [callback |-> cb, scale |-> scale, count |-> 0,
                   arg |-> arg]]
            /\ regAt' = [regAt EXCEPT ![t][n] = nDisp[t]]
            /\ UNCHANGED dropped
       ELSE /\ dropped < MaxDrop
            /\ dropped' = dropped + 1
            /\ UNCHANGED << self, reg, regAt >>
    /\ UNCHANGED << buildVars, apiVars, stopAt,
                    tickVars, fired, calls, tc, PRR, ASSR, pc,
                    cfgAt, nBegin, lastBegin >>

\* void handle_millis() { m_handle_millis=true; }
HandleMillis(t) ==
    /\ t \in inst /\ AllIdle
    /\ ~self[t].m_handle_millis
    /\ self' = [self EXCEPT ![t].m_handle_millis = TRUE]
    /\ UNCHANGED << buildVars, apiVars, stopAt, tickVars, schedGhost, tc,
                    PRR, ASSR, pc, cfgAt, nBegin, lastBegin >>

-----------------------------------------------------------------------------
(* PWM channels *)

T0WGM == 7

\* the level inverted
IdleLevel_inverted(com) == IF com = 3 THEN 0 ELSE 1

\* SET( PIN_OCnx, m_comx==3 ): the level the pin's port latch gets
IdleLevel(com) == IF com = 3 THEN 1 ELSE 0

\* uint16_t ocr = ((uint16_t)pwm * (uint16_t) m_ocr) / (uint16_t) top;
\* OCR0B = ocr;
\* the product formed in 8 bits, as without the casts to uint16_t
AvrTimer0_scale_u8(pwm, cnt, top) ==
    {U8(q) : q \in UDiv(U8(pwm * cnt), top)}

\* uint16_t ocr = ((uint16_t)pwm * (uint16_t) m_ocr) / (uint16_t) top;
AvrTimer0_scale(pwm, cnt, top) ==
    {U8(q) : q \in UDiv(U16(pwm * cnt), top)}

\* the product formed in 16 bits
AvrTimer1_scale_u16(pwm, cnt, top) ==
    {U16(q) : q \in UDiv(U16(pwm * cnt), top)}

\* uint16_t ocr = ((uint32_t)pwm * m_top) / top;
AvrTimer1_scale(pwm, cnt, top) ==
    {U16(q) : q \in UDiv(pwm * cnt, top)}

\* AvrTimer0::setCR, AvrTimer1::setCR: the value TCCRnA gets
AvrTimer0_setCR(me) ==
    [COMA |-> 0, COMB |-> IF me.m_enableB THEN me.m_comB ELSE 0,
     WGM |-> T0WGM % 4]

AvrTimer1_setCR(me) ==
    [COMA |-> IF me.m_enableA THEN me.m_comA ELSE 0,
     COMB |-> IF me.m_enableB THEN me.m_comB ELSE 0,
     WGM |-> T1WGM % 4]

\* what a setPWM call records
PwmOp(t, ch, pwm, top) ==
    [t |-> t, ch |-> ch, pwm |-> pwm, top |-> top, begins |-> nBegin,
     same |-> /\ lastPwm.t = t /\ lastPwm.ch = ch /\ lastPwm.pwm = pwm
              /\ lastPwm.top = top /\ lastPwm.begins = nBegin]

PwmCalled(t, ch, pwm, top) ==
    /\ t \in inst /\ AllIdle /\ nPwm < MaxPwm
    /\ nPwm' = nPwm + 1
    /\ lastPwm' = PwmOp(t, ch, pwm, top)
    /\ UNCHANGED << buildVars, SREG_I, rd, stack, ad, stopAt, tickVars,
                    schedGhost,
                    PRR, ASSR, pc, cfgAt, nBegin, lastBegin >>

AvrTimer0_setPWM_B(pwm, top) ==
    /\ PwmCalled(0, "B", pwm, top)
    /\ IF pwm # 0
       THEN \E ocr \in AvrTimer0_scale(pwm, self[0].m_ocr, top) :
              LET me == [self[0] EXCEPT !.m_enableB = TRUE] IN
              /\ self' = [self EXCEPT ![0] = me]
              /\ tc' = [tc EXCEPT ![0].OCRB = ocr,
                                  ![0].TCCRA = AvrTimer0_setCR(me)]
              /\ UNCHANGED pin
       ELSE LET me == [self[0] EXCEPT !.m_enableB = FALSE] IN
              /\ self' = [self EXCEPT ![0] = me]
              /\ pin' = [pin EXCEPT !["OC0B"] = IdleLevel(me.m_comB)]
              /\ tc' = [tc EXCEPT ![0].TCCRA = AvrTimer0_setCR(me)]

AvrTimer1_setPWM_A(pwm, top) ==
    /\ PwmCalled(1, "A", pwm, top)
    /\ IF pwm # 0
       THEN \E ocr \in AvrTimer1_scale(pwm, self[1].m_top, top) :
              LET me == [self[1] EXCEPT !.m_enableA = TRUE] IN
              /\ self' = [self EXCEPT ![1] = me]
              /\ tc' = [tc EXCEPT ![1].OCRA = ocr,
                                  ![1].TCCRA = AvrTimer1_setCR(me)]
              /\ UNCHANGED pin
       ELSE LET me == [self[1] EXCEPT !.m_enableA = FALSE] IN
              /\ self' = [self EXCEPT ![1] = me]
              /\ pin' = [pin EXCEPT !["OC1A"] = IdleLevel(me.m_comA)]
              /\ tc' = [tc EXCEPT ![1].TCCRA = AvrTimer1_setCR(me)]

AvrTimer1_setPWM_B(pwm, top) ==
    /\ PwmCalled(1, "B", pwm, top)
    /\ IF pwm # 0
       THEN \E ocr \in AvrTimer1_scale(pwm, self[1].m_top, top) :
              LET me == [self[1] EXCEPT !.m_enableB = TRUE] IN
              /\ self' = [self EXCEPT ![1] = me]
              /\ tc' = [tc EXCEPT ![1].OCRB = ocr,
                                  ![1].TCCRA = AvrTimer1_setCR(me)]
              /\ UNCHANGED pin
       ELSE LET me == [self[1] EXCEPT !.m_enableB = FALSE] IN
              /\ self' = [self EXCEPT ![1] = me]
              /\ pin' = [pin EXCEPT !["OC1B"] = IdleLevel(me.m_comB)]
              /\ tc' = [tc EXCEPT ![1].TCCRA = AvrTimer1_setCR(me)]

-----------------------------------------------------------------------------
(* Foreground reads of the millisecond counters *)

\* byte k of a 32-bit value, and the value with byte k replaced
Byte(v, k) == (v \div (256 ^ k)) % 256
WithByte(v, k, b) == v - Byte(v, k) * (256 ^ k) + b * (256 ^ k)

\* the 32-bit object a read is about
Counter(c) == IF c = Sys THEN timer0_millis ELSE self[c].m_millis

\* a read without the critical section
AtomicBlock_open(i) == i

\* ATOMIC_BLOCK(ATOMIC_RESTORESTATE): the interrupt flag inside the block
AtomicBlock(i) == FALSE

\* get_millis() of controller c, or millis() for c = Sys, is entered
ReadEnter(c) ==
    /\ (c = Sys \/ c \in inst) /\ AllIdle /\ rd.n < MaxRead
    /\ rd' = [rd EXCEPT !.pc = "b0", !.c = c, !.temp = 0, !.sreg = SREG_I]
    /\ SREG_I' = AtomicBlock(SREG_I)
    /\ UNCHANGED << buildVars, pin, lastPwm, nPwm, stack, ad, stopAt, tickVars,
                    schedGhost, self, tc, PRR, ASSR, pc, cfgAt, nBegin,
                    lastBegin >>

\* temp = m_millis; one byte is loaded
ReadByte ==
    /\ rd.pc \in {"b0", "b1", "b2", "b3"}
    /\ LET k == CASE rd.pc = "b0" -> 0 [] rd.pc = "b1" -> 1
                   [] rd.pc = "b2" -> 2 [] OTHER -> 3
       IN  rd' = [rd EXCEPT
                    !.temp = WithByte(@, k, Byte(Counter(rd.c), k)),
                    !.pc = CASE k = 0 -> "b1" [] k = 1 -> "b2"
                             [] k = 2 -> "b3" [] OTHER -> "leave"]
    /\ UNCHANGED << buildVars, pin, lastPwm, nPwm, stack, ad, SREG_I, stopAt,
                    tickVars,
                    schedGhost, self, tc, PRR, ASSR, pc, cfgAt, nBegin,
                    lastBegin >>

\* the block is left: the interrupt state is restored, temp is returned
ReadLeave ==
    /\ rd.pc = "leave"
    /\ rd' = [rd EXCEPT !.pc = "idle", !.ret = rd.temp, !.n = @ + 1]
    /\ SREG_I' = rd.sreg
    /\ UNCHANGED << buildVars, pin, lastPwm, nPwm, stack, ad, stopAt, tickVars,
                    schedGhost, self, tc, PRR, ASSR, pc, cfgAt, nBegin,
                    lastBegin >>

-----------------------------------------------------------------------------
(* Hardware *)

\* the counter reaches its period: the interrupt flag is raised
HwEvent(t) ==
    /\ t \in inst
    /\ tc[t].TCCRB.CS # 0
    /\ PRTIM(t) \notin PRR
    /\ IF_(t) \notin tc[t].TIFR
    /\ nIrq[t] < MaxTicks
    /\ tc' = [tc EXCEPT ![t].TIFR = @ \cup {IF_(t)}]
    /\ UNCHANGED << buildVars, apiVars, stopAt,
                    tickVars, schedGhost, self, PRR, ASSR, pc,
                    cfgAt, nBegin, lastBegin >>

\* a register write has crossed into the asynchronous clock domain
HwSync ==
    /\ \E b \in ASSR.busy : ASSR' = [ASSR EXCEPT !.busy = @ \ {b}]
    /\ UNCHANGED << buildVars, apiVars, stopAt,
                    tickVars, schedGhost, self, tc, PRR, pc,
                    cfgAt, nBegin, lastBegin >>

-----------------------------------------------------------------------------
(* Interrupt handlers *)

\* the period test with > for >=
Due_gt(count, scale) == count > scale

\* if (++(p->count) >= (p->scale))
Due(count, scale) == count >= scale

\* p++ in the task loop
NextSlot(i) == i + 1

\* the task loop run from the last slot down to the first
RECURSIVE ScanTasks_down(_, _, _, _)
ScanTasks_down(tasks, n, i, log) ==
    LET j == n - 1 - i IN
    IF i >= n \/ j \notin DOMAIN tasks THEN [tasks |-> tasks, log |-> log]
    ELSE LET p == tasks[j]
             c == U16(p.count + 1)
         IN  IF p.callback = NULL THEN [tasks |-> tasks, log |-> log]
             ELSE IF Due(c, p.scale)
             THEN ScanTasks_down([tasks EXCEPT ![j].count = 0], n, i + 1,
                            Append(log, [slot |-> j, callback |-> p.callback,
                                         arg |-> p.arg]))
             ELSE ScanTasks_down([tasks EXCEPT ![j].count = c], n, i + 1,
                            log)

\* The task loop of AvrTimerBase::call_tasks from slot i on: the tasks as
\* the loop leaves them and the callbacks it invokes, in order.
RECURSIVE ScanTasks(_, _, _, _)
ScanTasks(tasks, n, i, log) ==
    IF i >= n \/ i \notin DOMAIN tasks THEN [tasks |-> tasks, log |-> log]
    ELSE LET p == tasks[i]
             c == U16(p.count + 1)
         IN  IF p.callback = NULL THEN [tasks |-> tasks, log |-> log]
             ELSE IF Due(c, p.scale)
             THEN ScanTasks([tasks EXCEPT ![i].count = 0], n, NextSlot(i),
                            Append(log, [slot |-> i, callback |-> p.callback,
                                         arg |-> p.arg]))
             ELSE ScanTasks([tasks EXCEPT ![i].count = c], n, NextSlot(i),
                            log)

\* the number of entries of log for slot i
RECURSIVE CountSlot(_, _)
CountSlot(log, i) ==
    IF log = << >> THEN 0
    ELSE (IF Head(log).slot = i THEN 1 ELSE 0) + CountSlot(Tail(log), i)

\* AvrTimerBase::call_tasks on controller t; before: the callbacks the
\* handler has invoked before it calls AvrTimerBase::call_tasks
AvrTimerBase_call_tasks(t, before) ==
    LET me   == self[t]
        sub1 == U8(subms + 1)
        tick == me.m_MillisPerTick = 0 /\ sub1 >= me.m_TicksPerMilli
        scan == ScanTasks(me.m_tasks, me.m_nTasks, 0, << >>)
    IN
    /\ timer0_millis' = IF me.m_handle_millis
                        THEN timer0_millis + me.m_MillisPerTick
                        ELSE timer0_millis
    /\ subms' = IF me.m_MillisPerTick # 0 THEN subms
                ELSE IF tick THEN 0 ELSE sub1
    /\ self' = [self EXCEPT
                  ![t].m_millis = IF me.m_MillisPerTick # 0
                                  THEN @ + me.m_MillisPerTick
                                  ELSE IF tick THEN @ + 1 ELSE @,
                  ![t].m_tasks = scan.tasks]
    /\ held' = [held EXCEPT ![t] = @ \cup {self'[t].m_millis},
                            ![Sys] = @ \cup {timer0_millis'}]
    /\ calls' = before \o scan.log
    /\ fired' = [fired EXCEPT ![t] =
                    [i \in Slots |-> @[i] + CountSlot(scan.log, i)]]
    /\ nDisp' = [nDisp EXCEPT ![t] = @ + 1]

\* the entry of the callback log for the plain interrupt callback
IsrSlot == -1
IsrEntry(isr) == [slot |-> IsrSlot, callback |-> isr, arg |-> NULL]

\* the callback invoked on dispatching interrupts only
IsrCall_prescaled(isr, dispatching) ==
    IF isr # NULL /\ dispatching THEN << IsrEntry(isr) >> ELSE << >>

\* if (m_isr) m_isr();
IsrCall(isr, dispatching) ==
    IF isr # NULL THEN << IsrEntry(isr) >> ELSE << >>

\* the handler's vector is requested and not masked
Pending_unmasked(t) == IF_(t) \in tc[t].TIFR

Pending(t) == IF_(t) \in tc[t].TIFR /\ IE(t) \in tc[t].TIMSK

NoNesting == \A u \in Timers : pc[u] # "isr_wait"

\* ISR(TIMER0_COMPA_vect), ISR(TIMER1_OVF_vect)
ISR(t) ==
    /\ t \in inst /\ t # 2
    /\ pc[t] = "idle" /\ NoNesting /\ SREG_I
    /\ Pending(t)
    /\ tc' = [tc EXCEPT ![t].TIFR = @ \ {IF_(t)}]
    /\ AvrTimerBase_call_tasks(t, << >>)
    /\ nIrq' = [nIrq EXCEPT ![t] = @ + 1]
    /\ UNCHANGED << buildVars, apiVars, stopAt, precount, regAt, reg,
                    dropped, PRR, ASSR, pc,
                    cfgAt, nBegin, lastBegin >>

\* the handler without its wait
IsrBusy_never(busy) == FALSE

\* while (ASSR & _BV(OCR2AUB)) {}
IsrBusy(busy) == "OCR2AUB" \in busy

\* ISR(TIMER2_COMPA_vect): AvrTimer2::call_tasks up to its wait
ISR2 ==
    /\ 2 \in inst
    /\ pc[2] = "idle" /\ NoNesting /\ SREG_I
    /\ Pending(2)
    /\ LET me   == self[2]
           pre1 == U8(precount - 1)
           busy == IF me.m_async
                   THEN BusyAfter(ASSR.AS2, ASSR.busy, {"OCR2AUB"})
                   ELSE ASSR.busy
       IN
       /\ tc' = [tc EXCEPT ![2].TIFR = @ \ {IF_(2)},
                           ![2].TOP = IF me.m_async THEN me.m_ocr ELSE @]
       /\ ASSR' = [ASSR EXCEPT !.busy = busy]
       /\ IF pre1 = 0
          THEN /\ precount' = me.m_prescale
               /\ AvrTimerBase_call_tasks(2, IsrCall(me.m_isr, TRUE))
          ELSE /\ precount' = pre1
               /\ calls' = IsrCall(me.m_isr, FALSE)
               /\ UNCHANGED << self, subms, timer0_millis, fired, nDisp,
                               held >>
       /\ pc' = [pc EXCEPT ![2] =
                    IF me.m_async /\ IsrBusy(busy)
                    THEN "isr_wait" ELSE "idle"]
    /\ nIrq' = [nIrq EXCEPT ![2] = @ + 1]
    /\ UNCHANGED << buildVars, apiVars, stopAt, regAt, reg, dropped,
                    PRR, cfgAt, nBegin,
                    lastBegin >>

\* while (ASSR & _BV(OCR2AUB)) {} ends and the handler returns
IsrFinish2 ==
    /\ pc[2] = "isr_wait"
    /\ ~IsrBusy(ASSR.busy)
    /\ pc' = [pc EXCEPT ![2] = "idle"]
    /\ UNCHANGED << buildVars, apiVars, stopAt,
                    tickVars, schedGhost, self, tc, PRR, ASSR,
                    cfgAt, nBegin, lastBegin >>

-----------------------------------------------------------------------------
(* Specifications *)

Begin ==
    \/ \E r \in Rates, p \in Pols0 : Begin0(r, p)
    \/ \E r \in Rates, p \in Pols1 : Begin1(r, p[1], p[2])
    \/ \E a \in T2Args : Begin2(a)
    \/ InitFinish2

Hardware ==
    \/ \E t \in Timers : HwEvent(t)
    \/ HwSync

Interrupt ==
    \/ \E t \in Timers : ISR(t)
    \/ ISR2
    \/ IsrFinish2

StartStop == \E t \in Timers : Start(t) \/ Stop(t)

Register ==
    \E t \in Timers, d \in Scales, cb \in Callbacks :
        AddTask(t, d, cb, ArgOf(self[t].m_nTasks + dropped))

Starts == \E t \in Timers : Start(t)

\* Configuration and time keeping: controllers are configured, started and
\* tick; no task is registered.
CfgNext == Begin \/ Starts \/ Hardware \/ Interrupt

CfgSpec == Init /\ [][CfgNext]_vars

\* Task scheduling: one build, AvrTimer0 configured once at a fixed rate,
\* tasks registered at any time.
SchedRate == 1000

SchedInit ==
    /\ Init
    /\ DEBUG_AVRTIMERS = 0
    /\ F_CPU = 8000000
    /\ PRR = {}
    /\ inst = {0}

SchedNext ==
    \/ nBegin = 0 /\ Begin0(SchedRate, Disabled)
    \/ Start(0)
    \/ Register
    \/ HwEvent(0)
    \/ ISR(0)

SchedSpec == SchedInit /\ [][SchedNext]_vars

\* PWM: AvrTimer0 or AvrTimer1 is configured, started, stopped and its
\* channels are set; the counter does not tick.
PwmRates == {10, 1000}
Duty0 == {<< 0, 255 >>, << 2, 255 >>, << 100, 200 >>, << 255, 255 >>}
Duty1 == {<< 0, 32767 >>, << 2, 3 >>, << 1024, 2048 >>, << 32767, 32767 >>}

PwmInit ==
    /\ Init
    /\ DEBUG_AVRTIMERS = 0
    /\ F_CPU = 8000000
    /\ PRR = {}
    /\ inst \in {{0}, {1}}

SetPWM ==
    \/ \E d \in Duty0 : AvrTimer0_setPWM_B(d[1], d[2])
    \/ \E d \in Duty1 : AvrTimer1_setPWM_A(d[1], d[2])
    \/ \E d \in Duty1 : AvrTimer1_setPWM_B(d[1], d[2])

PwmNext ==
    \/ \E r \in PwmRates, p \in Pols0 : Begin0(r, p)
    \/ \E r \in PwmRates, p \in Pols1 : Begin1(r, p[1], p[2])
    \/ StartStop
    \/ SetPWM

PwmSpec == PwmInit /\ [][PwmNext]_vars

\* Millis: AvrTimer1 is configured once below or above 1000 Hz, may be told
\* to handle millis, ticks, and foreground code reads the counters.
TickRates == {10, 1500}

MillisInit ==
    /\ Init
    /\ F_CPU = 8000000
    /\ PRR = {}
    /\ inst = {1}

MillisNext ==
    \/ nBegin = 0 /\ \E r \in TickRates : Begin1(r, Disabled, Disabled)
    \/ HandleMillis(1)
    \/ Start(1)
    \/ HwEvent(1)
    \/ ISR(1)
    \/ \E c \in {1, Sys} : ReadEnter(c)
    \/ ReadByte
    \/ ReadLeave

MillisSpec == MillisInit /\ [][MillisNext]_vars

\* Timer2 with a plain interrupt callback and a soft prescale of 2: tasks
\* are registered before the first interrupt, the counter is started and
\* stopped at any time.
T2Arg == [rate |-> 1000, tickrate |-> 500, isr |-> "my_isr",
          fclk |-> 8000000, async |-> FALSE]

T2Init ==
    /\ Init
    /\ DEBUG_AVRTIMERS = 0
    /\ F_CPU = 8000000
    /\ PRR = {}
    /\ inst = {2}

\* a soft prescale of 257: tickrate divides rate, the ratio is above 255
T2Wide == [rate |-> 1028, tickrate |-> 4, isr |-> "my_isr",
           fclk |-> 8000000, async |-> FALSE]

T2SpecArgs == {T2Arg, T2Wide}

T2Next ==
    \/ nBegin = 0 /\ \E a \in T2SpecArgs : Begin2(a)
    \/ nIrq[2] = 0 /\ Register
    \/ Start(2)
    \/ Stop(2)
    \/ HwEvent(2)
    \/ ISR2

T2Spec == T2Init /\ [][T2Next]_vars

\* PWM on counters begun once with a period near the largest the resolver
\* accepts: 500 Hz gives Timer0 the top 249, 245 Hz gives Timer1 the top
\* 32652.
DutyRates == {245, 500, 1000}

DutyNext ==
    \/ nBegin = 0 /\ \E r \in DutyRates, p \in Pols0 : Begin0(r, p)
    \/ nBegin = 0 /\ \E r \in DutyRates, p \in Pols1 : Begin1(r, p[1], p[2])
    \/ SetPWM

DutySpec == PwmInit /\ [][DutyNext]_vars

\* Timer1 begun once at a rate of a few Hz, which only the 16-bit counter
\* resolves, in a build that sets the rate fields.
SlowRates == {1, 3, 10}

SlowInit ==
    /\ Init
    /\ DEBUG_AVRTIMERS = 1
    /\ F_CPU = 8000000
    /\ PRR = {}
    /\ inst = {1}

SlowNext ==
    \/ nBegin = 0 /\ \E r \in SlowRates : Begin1(r, Disabled, Disabled)
    \/ HandleMillis(1)
    \/ Start(1)
    \/ Stop(1)
    \/ HwEvent(1)
    \/ ISR(1)

SlowSpec == SlowInit /\ [][SlowNext]_vars

\* The handler of Timer0 step by step. It sets the global interrupt flag
\* before it dispatches, so the timer's next interrupt is taken wherever
\* the dispatch stands: stack holds the position of every dispatch in
\* progress, the innermost last.
Frame(i, at) == [i |-> i, at |-> at]

Top == stack[Len(stack)]

SetTop(f) == [stack EXCEPT ![Len(stack)] = f]

Pop == SubSeq(stack, 1, Len(stack) - 1)

\* ISR(TIMER0_COMPA_vect): sei(), and call_tasks up to its task loop
NestEnter ==
    LET me   == self[0]
        sub1 == U8(subms + 1)
        tick == me.m_MillisPerTick = 0 /\ sub1 >= me.m_TicksPerMilli
    IN
    /\ 0 \in inst /\ pc[0] = "idle" /\ SREG_I
    /\ Pending(0)
    /\ Len(stack) < MaxNest
    /\ tc' = [tc EXCEPT ![0].TIFR = @ \ {IF_(0)}]
    /\ timer0_millis' = IF me.m_handle_millis
                        THEN timer0_millis + me.m_MillisPerTick
                        ELSE timer0_millis
    /\ subms' = IF me.m_MillisPerTick # 0 THEN subms
                ELSE IF tick THEN 0 ELSE sub1
    /\ self' = [self EXCEPT
                  ![0].m_millis = IF me.m_MillisPerTick # 0
                                  THEN @ + me.m_MillisPerTick
                                  ELSE IF tick THEN @ + 1 ELSE @]
    /\ held' = [held EXCEPT ![0] = @ \cup {self'[0].m_millis},
                            ![Sys] = @ \cup {timer0_millis'}]
    /\ nIrq' = [nIrq EXCEPT ![0] = @ + 1]
    /\ stack' = Append(stack, Frame(0, "loop"))
    /\ calls' = IF stack = << >> THEN << >> ELSE calls
    /\ UNCHANGED << buildVars, pin, SREG_I, rd, lastPwm, nPwm, ad, stopAt,
                    precount, nDisp, regAt, reg, fired, dropped, PRR, ASSR,
                    pc, cfgAt, nBegin, lastBegin >>

\* one pass of the task loop of the innermost dispatch, up to the call of
\* the callback or to the next slot; past the last task the dispatch ends
NestStep ==
    /\ stack # << >> /\ Top.at = "loop"
    /\ LET i == Top.i
           n == self[0].m_nTasks
       IN
       IF i >= n \/ i \notin Slots \/ self[0].m_tasks[i].callback = NULL
       THEN /\ stack' = Pop
            /\ nDisp' = [nDisp EXCEPT ![0] = @ + 1]
            /\ UNCHANGED << self, fired, calls >>
       ELSE LET p == self[0].m_tasks[i]
                c == U16(p.count + 1)
            IN
            /\ self' = [self EXCEPT ![0].m_tasks[i].count = c]
            /\ IF Due(c, p.scale)
               THEN /\ stack' = SetTop(Frame(i, "cb"))
                    /\ fired' = [fired EXCEPT ![0][i] = @ + 1]
                    /\ calls' = Append(calls,
                                       [slot |-> i, callback |-> p.callback,
                                        arg |-> p.arg])
               ELSE /\ stack' = SetTop(Frame(NextSlot(i), "loop"))
                    /\ UNCHANGED << fired, calls >>
            /\ UNCHANGED nDisp
    /\ UNCHANGED << buildVars, pin, SREG_I, rd, lastPwm, nPwm, ad, stopAt >>
    /\ UNCHANGED << subms, precount, timer0_millis, nIrq, held, regAt, reg,
                    dropped, tc, PRR, ASSR, pc, cfgAt, nBegin, lastBegin >>

\* the callback of the innermost dispatch returns: p->count = 0; p++
NestReturn ==
    /\ stack # << >> /\ Top.at = "cb"
    /\ self' = [self EXCEPT ![0].m_tasks[Top.i].count = 0]
    /\ stack' = SetTop(Frame(NextSlot(Top.i), "loop"))
    /\ UNCHANGED << buildVars, pin, SREG_I, rd, lastPwm, nPwm, ad, stopAt,
                    tickVars, schedGhost, tc, PRR, ASSR, pc, cfgAt, nBegin,
                    lastBegin >>

NestNext ==
    \/ nBegin = 0 /\ Begin0(SchedRate, Disabled)
    \/ Start(0)
    \/ nIrq[0] = 0 /\ Register
    \/ HwEvent(0)
    \/ NestEnter
    \/ NestStep
    \/ NestReturn

NestSpec == SchedInit /\ [][NestNext]_vars

\* An application with two controllers, as the example has them: Timer0
\* at 2000 Hz and Timer1 at 3000 Hz, each begun once.
DualRate(t) == IF t = 0 THEN 2000 ELSE 3000

DualInit ==
    /\ InitFor({0, 1})
    /\ F_CPU = 8000000
    /\ PRR = {}

DualNext ==
    \/ ~cfgAt[0].ok /\ Begin0(DualRate(0), Disabled)
    \/ ~cfgAt[1].ok /\ Begin1(DualRate(1), Disabled, Disabled)
    \/ \E t \in {0, 1} : Start(t)
    \/ \E t \in {0, 1} : HwEvent(t)
    \/ \E t \in {0, 1} : ISR(t)

DualSpec == DualInit /\ [][DualNext]_vars

\* add_task store by store, with the handler of the timer running in
\* between. m_tasks and m_nTasks are plain members that the handler reads;
\* add_task neither masks interrupts nor orders its five stores for the
\* handler, so a build may emit them in any order: ad.todo holds the
\* stores still to come.
AddStores == {"count", "scale", "callback", "arg", "m_nTasks"}

\* add_task is entered and finds room: n is the slot it writes
AddEnter(t, scale, cb, arg) ==
    /\ t \in inst /\ AllIdle
    /\ HasRoom(self[t].m_nTasks) /\ self[t].m_nTasks < MaxAdd
    /\ ad' = [pc |-> "store", t |-> t, n |-> SlotFor(self[t].m_nTasks),
              scale |-> scale, callback |-> cb, arg |-> arg,
              todo |-> AddStores]
    /\ UNCHANGED << buildVars, pin, SREG_I, rd, lastPwm, nPwm, stack,
                    stopAt, tickVars, schedGhost, self, tc, PRR, ASSR, pc,
                    cfgAt, nBegin, lastBegin >>

\* one store of add_task; after the last one add_task returns
AddStore(f) ==
    /\ ad.pc = "store" /\ f \in ad.todo
    /\ LET t == ad.t
           n == ad.n
           last == ad.todo = {f}
       IN
       /\ self' = [self EXCEPT ![t] =
              CASE f = "count"    -> [@ EXCEPT !.m_tasks[n].count = 0]
                [] f = "scale"    -> [@ EXCEPT !.m_tasks[n].scale = ad.scale]
                [] f = "callback" ->
                       [@ EXCEPT !.m_tasks[n].callback = ad.callback]
                [] f = "arg"      -> [@ EXCEPT !.m_tasks[n].arg = ad.arg]
                [] f = "m_nTasks" -> [@ EXCEPT !.m_nTasks = U8(n + 1)]]
       /\ ad' = IF last THEN NoAdd ELSE [ad EXCEPT !.todo = @ \ {f}]
       /\ reg' = IF last
                 THEN [reg EXCEPT ![t][n] =
                         [callback |-> ad.callback, scale |-> ad.scale,
                          count |-> 0, arg |-> ad.arg]]
                 ELSE reg
       /\ regAt' = IF last THEN [regAt EXCEPT ![t][n] = nDisp[t]] ELSE regAt
    /\ UNCHANGED << buildVars, pin, SREG_I, rd, lastPwm, nPwm, stack,
                    stopAt, tickVars, fired, calls, dropped, tc, PRR, ASSR,
                    pc, cfgAt, nBegin, lastBegin >>

AddNext ==
    \/ nBegin = 0 /\ Begin0(SchedRate, Disabled)
    \/ Start(0)
    \/ \E d \in Scales :
          AddEnter(0, d, "my_cb", ArgOf(self[0].m_nTasks))
    \/ \E f \in AddStores : AddStore(f)
    \/ HwEvent(0)
    \/ ISR(0)

AddSpec == SchedInit /\ [][AddNext]_vars

\* Timer2 clocked by the watch crystal: every register write stays busy
\* until the hardware has taken it over, which it does after a few cycles
\* of the crystal, and a handler whose wait has ended returns.
AsyncArg == [rate |-> 100, tickrate |-> 0, isr |-> "my_isr",
             fclk |-> WatchCrystal, async |-> TRUE]

\* the same with a software prescaler of 2
AsyncScaled == [rate |-> 128, tickrate |-> 64, isr |-> NULL,
                fclk |-> WatchCrystal, async |-> TRUE]

AsyncArgs == {AsyncArg, AsyncScaled}

AsyncInit ==
    /\ Init
    /\ DEBUG_AVRTIMERS = 0
    /\ F_CPU = 8000000
    /\ PRR = {}
    /\ inst = {2}

AsyncNext ==
    \/ nBegin = 0 /\ \E a \in AsyncArgs : Begin2(a)
    \/ InitFinish2
    \/ nIrq[2] = 0 /\ Register
    \/ Start(2)
    \/ HwEvent(2)
    \/ HwSync
    \/ ISR2
    \/ IsrFinish2

AsyncSpec ==
    /\ AsyncInit /\ [][AsyncNext]_vars
    /\ WF_vars(HwSync) /\ WF_vars(IsrFinish2)

-----------------------------------------------------------------------------
(* Task scheduler: C1, C2, C3 (SchedSpec) *)

\* the scheduled controller
Sched == self[0]

Registered == {i \in Slots : i < Sched.m_nTasks}

AllNonNull == \A i \in Registered : Sched.m_tasks[i].callback # NULL

\* the loop reaches slot i: no slot before it stops the scan
Reached(i) == \A j \in 0 .. i : Sched.m_tasks[j].callback # NULL

\* every callback of the last dispatch got the callback's stored argument
CallsAsStored ==
    \A k \in 1 .. Len(calls) :
        /\ calls[k].callback = reg[0][calls[k].slot].callback
        /\ calls[k].arg = reg[0][calls[k].slot].arg

\* C1: with only non-null callbacks registered, a task registered with
\* period divisor d >= 1 before the first tick has been invoked exactly
\* floor(N / d) times after N dispatches, each time with its stored
\* argument.
C1_FiresEveryD ==
    AllNonNull =>
        /\ CallsAsStored
        /\ \A i \in Registered :
             (regAt[0][i] = 0 /\ reg[0][i].scale >= 1) =>
                 fired[0][i] = nDisp[0] \div reg[0][i].scale

C1_Witness ==
    /\ AllNonNull
    /\ nDisp[0] >= 4
    /\ \E i, j \in Registered :
         /\ regAt[0][i] = 0 /\ reg[0][i].scale = 2 /\ fired[0][i] = 2
         /\ regAt[0][j] = 0 /\ reg[0][j].scale = 1 /\ fired[0][j] = nDisp[0]

\* the firing schedule of the task in slot i, registered at dispatch
\* number regAt
OnSchedule(i) ==
    fired[0][i] = (nDisp[0] - regAt[0][i]) \div reg[0][i].scale

C2_State ==
    /\ Sched.m_nTasks <= MAX_TIMER_TASKS
    /\ \A i \in Registered : Reached(i) => OnSchedule(i)

C2_Step ==
    /\ (dropped' # dropped) =>
          /\ Sched.m_nTasks = MAX_TIMER_TASKS
          /\ self' = self
    /\ (Sched.m_nTasks < MAX_TIMER_TASKS
            /\ self'[0].m_nTasks + dropped' # Sched.m_nTasks + dropped) =>
          /\ self'[0].m_nTasks = Sched.m_nTasks + 1
          /\ dropped' = dropped
          /\ self'[0].m_tasks[Sched.m_nTasks] = reg'[0][Sched.m_nTasks]

\* C2: the first MAX_TIMER_TASKS add_task calls are accepted and
\* dispatched on schedule; a call made when the list is full changes no
\* member of the controller, so the schedule of the stored tasks goes on;
\* the task count never exceeds MAX_TIMER_TASKS.
C2_FifthTaskDropped == [](C2_State) /\ [][C2_Step]_vars

C2_Witness ==
    /\ dropped = 1
    /\ Sched.m_nTasks = MAX_TIMER_TASKS
    /\ \A i \in Slots : Reached(i) /\ fired[0][i] >= 1
    /\ \E i \in Slots : regAt[0][i] > 0

\* C3: the callbacks of one dispatch are invoked in increasing slot order,
\* slot i holds the task of the i-th accepted add_task call, and what is
\* stored in a slot (callback, period, argument) does not change.
C3_RegistrationOrder ==
    /\ \A k, l \in 1 .. Len(calls) :
           k < l => calls[k].slot < calls[l].slot
    /\ CallsAsStored
    /\ \A i \in Registered :
           /\ Sched.m_tasks[i].arg = ArgOf(i)
           /\ [Sched.m_tasks[i] EXCEPT !.count = 0] = reg[0][i]

C3_Witness ==
    /\ Len(calls) >= 3
    /\ \E k \in 1 .. Len(calls) : reg[0][calls[k].slot].scale = 2
    /\ \E k \in 1 .. Len(calls) : reg[0][calls[k].slot].scale = 1

-----------------------------------------------------------------------------
(* Divisor resolution and begin(): C4 .. C8 (CfgSpec) *)

TableOf(t) == CASE t = 0 -> T0_div [] t = 1 -> T1_div [] OTHER -> T2_div
LimitOf(t) == IF t = 1 THEN Fit16 ELSE Fit8

\* the clock-select codes of a table: every index but 0
Codes(t) == 1 .. (Len(TableOf(t)) - 1)

\* clock / (divisor[c] * rate) fits the compare register of timer t
Fits(t, c, fclk, rate) == (fclk \div At(TableOf(t), c)) \div rate < LimitOf(t)

Fitting(t, fclk, rate) == {c \in Codes(t) : Fits(t, c, fclk, rate)}

Begun == lastBegin.op = "begin"

\* C4: calc_cs returns the smallest clock-select code of the timer's table
\* for which clock / (divisor * rate) fits the compare register.
C4_SmallestFit ==
    Begun =>
        LET F == Fitting(lastBegin.t, lastBegin.fclk, lastBegin.rate)
        IN  F # {} => /\ lastBegin.cs \in F
                      /\ \A c \in F : lastBegin.cs <= c

\* C5: calc_cs returns 0 only when no entry of the timer's table, the
\* largest divisor included, makes clock / (divisor * rate) fit.
C5_FailsOnlyIfNoneFits ==
    (Begun /\ lastBegin.cs = 0) =>
        Fitting(lastBegin.t, lastBegin.fclk, lastBegin.rate) = {}

\* C6: begin() hands its caller the achieved rate when the resolution
\* succeeds and 0 when it fails.
C6_BeginReturnsRate ==
    (Begun /\ AllIdle) =>
        lastBegin.ret = IF lastBegin.cs # 0 THEN lastBegin.initRet ELSE 0

\* C7: a begin() whose clock-select code is 0 leaves every register of the
\* counter, the power reduction and async status registers and every
\* member of the controller as they were.
C7_FailedBeginChangesNothing ==
    [][(nBegin' # nBegin /\ lastBegin'.cs = 0) =>
            UNCHANGED << self, tc, PRR, ASSR >>]_vars

\* a failed begin() on a controller that was configured and started
C7_Witness ==
    /\ Begun /\ lastBegin.cs = 0 /\ nBegin = 2
    /\ cfgAt[lastBegin.t].ok
    /\ tc[lastBegin.t].TIMSK = {IE(lastBegin.t)}
    /\ tc[lastBegin.t].TCCRB.CS # 0

\* C8: when the resolver succeeds, the rate r' init computes from the
\* chosen divisor and compare value satisfies r <= r' and
\* clock / (divisor * (compare + 1)) < r, and the period register holds
\* compare - 1; when it fails init returns 0.
C8_AchievedRate ==
    (Begun /\ AllIdle) =>
        LET t   == lastBegin.t
            div == At(TableOf(t), lastBegin.cs)
        IN  IF lastBegin.cs = 0 THEN lastBegin.initRet = 0
            ELSE /\ lastBegin.rate <= lastBegin.initRet
                 /\ (lastBegin.fclk \div div) \div (lastBegin.ocr + 1)
                        < lastBegin.rate
                 /\ tc[t].TOP = lastBegin.ocr - 1

-----------------------------------------------------------------------------
(* Millis emulator: C9, C10 (CfgSpec) *)

\* C9: N dispatches after a successful begin() at tick rate f the
\* millisecond accumulator has advanced by floor(N * 1000 / f), give or
\* take 1.
C9_MillisTracksTime ==
    \A t \in inst :
        (cfgAt[t].ok /\ cfgAt[t].tick > 0 /\ AllIdle) =>
            LET N == nDisp[t] - cfgAt[t].disp
                m == self[t].m_millis - cfgAt[t].millis
                e == (N * 1000) \div cfgAt[t].tick
            IN  m >= e - 1 /\ m <= e + 1

\* C10: after a successful begin() exactly one of the two rate fields is
\* nonzero: m_MillisPerTick at tick rates up to 1000 Hz, m_TicksPerMilli
\* above.
C10_ExactlyOneRateField ==
    \A t \in inst :
        (cfgAt[t].ok /\ AllIdle) =>
            IF cfgAt[t].tick <= 1000
            THEN self[t].m_MillisPerTick # 0 /\ self[t].m_TicksPerMilli = 0
            ELSE self[t].m_TicksPerMilli # 0 /\ self[t].m_MillisPerTick = 0

-----------------------------------------------------------------------------
(* System millis counter: C11 (MillisSpec) *)

\* C11: on a controller told to handle millis, every dispatch advances
\* timer0_millis by what it advances the controller's m_millis, at tick
\* rates below and above 1000 Hz.
C11_SystemMillisInStep ==
    [][\A t \in inst :
          (nDisp'[t] # nDisp[t] /\ self[t].m_handle_millis) =>
              timer0_millis' - timer0_millis
                  = self'[t].m_millis - self[t].m_millis]_vars

-----------------------------------------------------------------------------
(* Clock select: C12 (CfgSpec) *)

\* C12: after a successful begin() the CS field of the counter's control
\* register B holds the clock-select code the resolver returned.
C12_ClockSelectProgrammed ==
    (Begun /\ AllIdle /\ lastBegin.cs # 0) =>
        tc[lastBegin.t].TCCRB.CS = lastBegin.cs

-----------------------------------------------------------------------------
(* start() and stop(): C13 (T2Spec) *)

\* the dispatch loop of controller t reaches slot i
ReachedOn(t, i) == \A j \in 0 .. i : self[t].m_tasks[j].callback # NULL

\* a step of start() or stop() on controller t: the mask changes, or a
\* flag is cleared, or a stop is recorded, outside begin() and the handler
StartOrStop(t) ==
    /\ nBegin' = nBegin /\ nIrq' = nIrq
    /\ \/ tc'[t].TIMSK # tc[t].TIMSK
       \/ tc'[t].TIFR # tc[t].TIFR /\ tc'[t].TIFR \subseteq tc[t].TIFR
       \/ stopAt'[t] # stopAt[t]

C13_Frame(t) ==
    StartOrStop(t) =>
        /\ UNCHANGED << self, subms, precount, timer0_millis, PRR, ASSR >>
        /\ [tc'[t] EXCEPT !.TIMSK = tc[t].TIMSK, !.TIFR = tc[t].TIFR] = tc[t]

C13_Schedule(t) ==
    \A i \in Slots :
        (i < self[t].m_nTasks /\ ReachedOn(t, i)) =>
            fired[t][i] = (nDisp[t] - regAt[t][i]) \div reg[t][i].scale

\* C13: start() and stop() change only the interrupt mask and flag
\* registers of the counter; the accumulator, the sub-millisecond counter,
\* the tasks and their counters, the soft-prescale counter and the
\* configuration stay, so every task keeps firing on every scale-th
\* dispatch across a stop() and start().
C13_StartStopKeepState ==
    [](\A t \in inst : C13_Schedule(t))
        /\ [][\A t \in inst : C13_Frame(t)]_vars

\* stopped after the first dispatch, started again, and a task of period 2
\* fired on the second dispatch
C13_Witness ==
    /\ stopAt[2] = 1 /\ IE(2) \in tc[2].TIMSK
    /\ nDisp[2] = 2 /\ self[2].m_prescale = 2
    /\ \E i \in Slots :
         /\ i < self[2].m_nTasks /\ ReachedOn(2, i)
         /\ reg[2][i].scale = 2 /\ fired[2][i] = 1

-----------------------------------------------------------------------------
(* Interrupt mask: C14 (PwmSpec) *)

C14_State == \A t \in Timers : tc[t].TIMSK \subseteq {IE(t)}

C14_Step ==
    \A t \in Timers :
        /\ (nBegin' # nBegin /\ lastBegin'.cs # 0 /\ lastBegin'.t = t) =>
               tc'[t].TIMSK = {}
        /\ (tc[t].TIMSK = {} /\ tc'[t].TIMSK # {}) =>
               /\ nBegin' = nBegin /\ nPwm' = nPwm /\ stopAt' = stopAt
               /\ self' = self

\* C14: the interrupt mask register of a counter never holds a bit other
\* than the controller's own enable bit; a successful begin() leaves it
\* empty, and from empty only start() sets the bit (no begin(), stop() or
\* setPWM call does).
C14_OneInterruptSource == [](C14_State) /\ [][C14_Step]_vars

\* configured, stopped at some time, running now, channels set twice
C14_Witness ==
    \E t \in inst :
        /\ cfgAt[t].ok /\ nBegin = 2 /\ nPwm = 2 /\ stopAt[t] = 0
        /\ tc[t].TIMSK = {IE(t)}

-----------------------------------------------------------------------------
(* PWM channels: C16, C17, C18 (PwmSpec) *)

\* the channel of the latest setPWM call
EnableOf(t, ch) ==
    IF ch = "A" THEN self[t].m_enableA ELSE self[t].m_enableB
PolOf(t, ch) == IF ch = "A" THEN self[t].m_polA ELSE self[t].m_polB
ComBits(t, ch) == IF ch = "A" THEN tc[t].TCCRA.COMA ELSE tc[t].TCCRA.COMB
CmpOf(t, ch) == IF ch = "A" THEN tc[t].OCRA ELSE tc[t].OCRB
PinOf(t, ch) ==
    IF t = 0 THEN pin["OC0B"]
    ELSE IF ch = "A" THEN pin["OC1A"] ELSE pin["OC1B"]
CounterTop(t) == IF t = 0 THEN self[t].m_ocr ELSE self[t].m_top
Channels(t) ==
    CASE t = 0 -> {"B"} [] t = 1 -> {"A", "B"} [] OTHER -> {}

\* low for active-high, high for active-low
IdleOf(pol) == IF pol = ActiveLow THEN 1 ELSE 0

Nearest(a, b) == (2 * a + b) \div (2 * b)
Truncated(a, b) == a \div b

\* the latest setPWM call had a nonzero duty within its range and the
\* controller has not been configured again since
DutySet ==
    /\ lastPwm.ch # "none" /\ lastPwm.pwm # 0 /\ lastPwm.top > 0
    /\ lastPwm.pwm <= lastPwm.top /\ lastPwm.begins = nBegin

\* a setPWM call that repeats the call before it changes nothing
Idempotent ==
    [][lastPwm'.same /\ nPwm' # nPwm => UNCHANGED << self, tc, pin >>]_vars

\* C16 as stated: the compare register gets p * counterTop / top rounded
\* to the nearest integer, and a repeated call changes nothing.
C16_RoundedDuty ==
    /\ [](DutySet =>
            CmpOf(lastPwm.t, lastPwm.ch) =
                Nearest(lastPwm.pwm * CounterTop(lastPwm.t), lastPwm.top))
    /\ Idempotent

\* C16 amended: the compare register gets p * counterTop / top truncated
\* to an integer, and a repeated call changes nothing.
C16_TruncatedDuty ==
    /\ [](DutySet =>
            CmpOf(lastPwm.t, lastPwm.ch) =
                Truncated(lastPwm.pwm * CounterTop(lastPwm.t), lastPwm.top))
    /\ Idempotent

\* the same duty set twice where truncating and rounding differ
C16_Witness ==
    /\ DutySet /\ lastPwm.same /\ lastPwm.t = 1
    /\ CounterTop(1) > 0
    /\ Nearest(lastPwm.pwm * CounterTop(1), lastPwm.top)
           # CmpOf(1, lastPwm.ch)

\* C17: a setPWM call with duty 0 leaves the channel's enabled flag
\* false, its compare-output-mode bits 0 and its pin at the idle level of
\* the configured polarity.
C17_ZeroDutyDisables ==
    [][(nPwm' # nPwm /\ lastPwm'.pwm = 0) =>
          LET t == lastPwm'.t
              ch == lastPwm'.ch
          IN  /\ ~(IF ch = "A" THEN self'[t].m_enableA
                                ELSE self'[t].m_enableB)
              /\ (IF ch = "A" THEN tc'[t].TCCRA.COMA
                               ELSE tc'[t].TCCRA.COMB) = 0
              /\ PolOf(t, ch) # Disabled =>
                    (IF t = 0 THEN pin'["OC0B"]
                     ELSE IF ch = "A" THEN pin'["OC1A"] ELSE pin'["OC1B"])
                        = IdleOf(PolOf(t, ch))]_vars

\* an active-low channel that was driven is set to duty 0
C17_Witness ==
    /\ nBegin = 1 /\ nPwm = 2 /\ lastPwm.pwm = 0 /\ lastPwm.t = 0
    /\ cfgAt[0].ok /\ tc[0].OCRB # 0
    /\ self[0].m_polB = ActiveLow /\ pin["OC0B"] = 1
    /\ ~self[0].m_enableB /\ tc[0].TCCRA.COMB = 0

\* C18: after a successful begin() with a polarity configured, a channel
\* whose enabled flag is false has its compare-output-mode bits 0 and its
\* pin at the idle level of the polarity.
C18_DisabledChannelIdle ==
    \A t \in inst : \A ch \in Channels(t) :
        (cfgAt[t].ok /\ PolOf(t, ch) # Disabled /\ ~EnableOf(t, ch)) =>
            /\ ComBits(t, ch) = 0
            /\ PinOf(t, ch) = IdleOf(PolOf(t, ch))

-----------------------------------------------------------------------------
(* Foreground reads: C15 (MillisSpec) *)

\* C15: the value a read of m_millis or timer0_millis has assembled when
\* it leaves its critical section, and the value it returns, is a value
\* the counter held after a completed update (or its initial value).
C15_NoTornRead ==
    /\ rd.pc = "leave" => rd.temp \in held[rd.c]
    /\ (rd.pc = "idle" /\ rd.n > 0) => rd.ret \in held[rd.c]

\* a read has loaded the bytes of 200 while the interrupt that makes the
\* counter 300 is pending
C15_Witness ==
    /\ rd.pc = "leave" /\ rd.temp = 200 /\ ~SREG_I
    /\ rd.c \in inst
    /\ IF_(rd.c) \in tc[rd.c].TIFR /\ IE(rd.c) \in tc[rd.c].TIMSK
    /\ self[rd.c].m_MillisPerTick = 100

-----------------------------------------------------------------------------
(* Debug and default build: C19 (CfgSpec) *)

\* C19: a configuration step leaves the two rate fields as the build with
\* the other setting of DEBUG_AVRTIMERS would leave them from the same
\* state.
C19_BuildsAgree ==
    [][\A t \in inst :
          (cfgAt'[t] # cfgAt[t]) =>
              [m_MillisPerTick |-> self'[t].m_MillisPerTick,
               m_TicksPerMilli |-> self'[t].m_TicksPerMilli]
                  \in MillisRatesIn(1 - DEBUG_AVRTIMERS, t,
                                    cfgAt'[t].tick)]_vars

-----------------------------------------------------------------------------
(* Plain interrupt callback of AvrTimer2: C20 (T2Spec) *)

IsrEntries(log) == {k \in 1 .. Len(log) : log[k].slot = IsrSlot}

\* C20: every TIMER2_COMPA interrupt invokes a non-null m_isr exactly
\* once, as the first callback of the interrupt, whether or not the soft
\* prescale lets the interrupt dispatch; a null m_isr is not invoked.
C20_IsrEveryInterrupt ==
    [][nIrq'[2] # nIrq[2] =>
          IF self[2].m_isr # NULL
          THEN /\ IsrEntries(calls') = {1}
               /\ calls'[1].callback = self[2].m_isr
          ELSE IsrEntries(calls') = {}]_vars

\* the third interrupt dispatches: the isr and then a task are invoked
C20_Witness ==
    /\ nIrq[2] = 3 /\ nDisp[2] = 2 /\ self[2].m_prescale = 2
    /\ Len(calls) >= 2 /\ calls[1] = IsrEntry("my_isr")
    /\ calls[2].slot = 0

-----------------------------------------------------------------------------
(* Soft prescale of AvrTimer2: C21 (T2Spec) *)

\* the tick rate begin() was given together with rate
TickRateFor(rate) == (CHOOSE a \in T2SpecArgs : a.rate = rate).tickrate

\* C21: after begin(rate, tickrate) with tickrate dividing rate, the
\* dispatch has run on the first interrupt and then on every
\* (rate / tickrate)-th: after N interrupts it has run
\* ceil(N / (rate / tickrate)) times.
C21_DispatchEveryRatio ==
    (Begun /\ lastBegin.t = 2 /\ lastBegin.cs # 0 /\ AllIdle) =>
        LET ratio == lastBegin.rate \div TickRateFor(lastBegin.rate)
        IN  nDisp[2] = (nIrq[2] + ratio - 1) \div ratio

-----------------------------------------------------------------------------
(* Asynchronous configuration: C22 (CfgSpec) *)

\* the update-busy bits of the registers AvrTimer2::init writes or resets
AllBusyBits == {"TCN2UB", "OCR2AUB", "TCR2AUB", "TCR2BUB"}

\* C22: when AvrTimer2::init leaves its wait in asynchronous mode, no
\* update-busy bit of counter, compare A, control A or control B is set.
C22_InitWaitsForAllBusyBits ==
    [][(pc[2] = "init_wait" /\ pc'[2] = "idle") =>
          (ASSR.busy \cap AllBusyBits) = {}]_vars

-----------------------------------------------------------------------------
(* Asynchronous dispatch: C23 (AsyncSpec) *)

\* the handler of Timer2 returns in this step
Returns2 ==
    pc'[2] = "idle" /\ (nIrq'[2] # nIrq[2] \/ pc[2] = "isr_wait")

\* C23: in asynchronous mode every run of the Timer2 handler writes m_ocr
\* to the compare register, does not return while OCR2AUB is set, and
\* returns once the hardware has cleared the bit.
C23_AsyncDispatchWaits ==
    /\ [][(nIrq'[2] # nIrq[2] /\ self[2].m_async) =>
             tc'[2].TOP = self[2].m_ocr]_vars
    /\ [][(Returns2 /\ self[2].m_async) =>
             "OCR2AUB" \notin ASSR'.busy]_vars
    /\ (pc[2] = "isr_wait") ~> (pc[2] = "idle")

\* the handler of the second interrupt waits for the compare register
C23_Witness ==
    /\ pc[2] = "isr_wait" /\ nIrq[2] = 2 /\ nDisp[2] = 2
    /\ self[2].m_async /\ ASSR.AS2 /\ "OCR2AUB" \in ASSR.busy
    /\ tc[2].TOP = self[2].m_ocr

-----------------------------------------------------------------------------
(* The 1 kHz scenario of the example: C24 (CfgSpec) *)

\* the last configuration is timer0.begin(1000) with an 8 MHz clock
Example1kHz ==
    /\ Begun /\ lastBegin.t = 0
    /\ lastBegin.rate = 1000 /\ lastBegin.fclk = 8000000

\* what begin resolved and programmed in that scenario
C24_State ==
    (Example1kHz /\ AllIdle) =>
        /\ lastBegin.cs = 3 /\ At(T0_div, lastBegin.cs) = 64
        /\ lastBegin.ocr = 125
        /\ tc[0].TCCRB.CS = 3 /\ tc[0].TOP = 124
        /\ lastBegin.initRet = 1000 /\ cfgAt[0].tick = 1000

\* every dispatch of that scenario adds one millisecond
C24_Step ==
    (Example1kHz /\ nDisp'[0] # nDisp[0]) =>
        self'[0].m_millis = self[0].m_millis + 1

\* C24: at 8 MHz begin(1000) on Timer0 selects clock select 3 (divisor
\* 64) and compare value 125 (register 124), the achieved rate is exactly
\* 1000 Hz, and every dispatch adds exactly 1 to the millisecond count.
C24_Example1kHz == [](C24_State) /\ [][C24_Step]_vars

\* the scenario after two dispatches
C24_Witness ==
    /\ Example1kHz /\ AllIdle
    /\ nDisp[0] - cfgAt[0].disp = 2
    /\ self[0].m_millis - cfgAt[0].millis = 2
    /\ tc[0].TOP = 124

-----------------------------------------------------------------------------
(* Stopped timers: C25 (T2Spec) *)

\* the interrupt of controller t is masked
Stopped(t) == IE(t) \notin tc[t].TIMSK

\* stop() leaves the timer stopped, only start() ends that, and while it
\* lasts no step dispatches, whatever the hardware does
C25_Step(t) ==
    /\ stopAt'[t] # stopAt[t] => Stopped(t)'
    /\ (Stopped(t) /\ ~Stopped(t)') =>
          /\ StartOrStop(t) /\ IF_(t) \notin tc'[t].TIFR
          /\ UNCHANGED << self, tickVars, fired, calls >>
    /\ Stopped(t) =>
          /\ nIrq'[t] = nIrq[t] /\ nDisp'[t] = nDisp[t]
          /\ self'[t].m_millis = self[t].m_millis
          /\ fired'[t] = fired[t] /\ calls' = calls

\* a started timer with an event pending gets its handler
C25_Resumes ==
    (~Stopped(2) /\ IF_(2) \in tc[2].TIFR /\ AllIdle /\ SREG_I) =>
        ENABLED ISR2

\* C25: from stop() to the next start() no dispatch runs for the timer,
\* its millisecond count stays and no callback is invoked, however many
\* compare events occur; after start() the next event is handled again.
C25_NoDispatchWhileStopped ==
    [](C25_Resumes) /\ [][\A t \in inst : C25_Step(t)]_vars

\* stopped after a dispatch with a task registered: an event is pending
\* and has not been dispatched
C25_Witness ==
    /\ Stopped(2) /\ IF_(2) \in tc[2].TIFR /\ AllIdle
    /\ stopAt[2] = nDisp[2] /\ nDisp[2] >= 1
    /\ self[2].m_nTasks >= 1 /\ ReachedOn(2, 0)
    /\ self[2].m_millis - cfgAt[2].millis = nDisp[2] - cfgAt[2].disp

-----------------------------------------------------------------------------
(* Occupied slots: C26 (SchedSpec) *)

\* C26: every slot below the task count holds a callback that a dispatch
\* calls, every slot from the task count on is unoccupied, so a dispatch
\* visits every registered task, also after add_task was given a null
\* callback and further tasks were registered.
C26_SlotsBelowCountOccupied ==
    \A t \in inst : \A i \in Slots :
        IF i < self[t].m_nTasks
        THEN self[t].m_tasks[i].callback # NULL /\ ReachedOn(t, i)
        ELSE self[t].m_tasks[i] = NoTask

-----------------------------------------------------------------------------
(* Nested dispatch: C27 (NestSpec) *)

\* C27: when the timer's interrupt is taken again while a callback of an
\* earlier dispatch still runs, no task is invoked more often for it:
\* with no dispatch in progress a task of period d has been invoked at most
\* N \div d times after N interrupts and its counter is below d.
C27_NestedDispatchOnSchedule ==
    stack = << >> =>
        \A i \in Slots :
            (i < self[0].m_nTasks /\ ReachedOn(0, i)) =>
                /\ fired[0][i] <= nIrq[0] \div reg[0][i].scale
                /\ self[0].m_tasks[i].count < reg[0][i].scale

-----------------------------------------------------------------------------
(* Two controllers: C28 (DualSpec) *)

\* C28: the millisecond counts of two controllers are independent: in
\* ticks-per-millisecond mode a controller that has dispatched N ticks
\* since its begin() has counted N \div m_TicksPerMilli milliseconds,
\* whatever the other controller dispatched in between.
C28_IndependentMillis ==
    \A t \in inst :
        (/\ cfgAt[t].ok /\ AllIdle
         /\ self[t].m_MillisPerTick = 0 /\ self[t].m_TicksPerMilli > 0) =>
            self[t].m_millis - cfgAt[t].millis
                = (nDisp[t] - cfgAt[t].disp) \div self[t].m_TicksPerMilli

-----------------------------------------------------------------------------
(* Registration while the timer runs: C29 (AddSpec) *)

\* the task that the add_task call in progress registers
Adding == [callback |-> ad.callback, scale |-> ad.scale, count |-> 0,
           arg |-> ad.arg]

\* a dispatch of controller t visits slot i
Visits(t, i) == i < self[t].m_nTasks /\ ReachedOn(t, i)

-----------------------------------------------------------------------------
(* The time base under the PWM setters: C30 (PwmSpec) *)

\* C30: a PWM setter on a configured timer leaves the waveform generation
\* mode, the clock select and the period register as begin() programmed
\* them, whatever the duty and also on a channel configured as Disabled.
C30_PwmKeepsTimeBase ==
    [][nPwm' # nPwm =>
         LET t == lastPwm'.t IN
         cfgAt[t].ok =>
             /\ tc'[t].TCCRA.WGM = tc[t].TCCRA.WGM
             /\ tc'[t].TCCRB = tc[t].TCCRB
             /\ tc'[t].TOP = tc[t].TOP]_vars

-----------------------------------------------------------------------------
(* The resolved compare value: C31 (CfgSpec) *)

\* the largest compare value the resolver of controller t may return
MaxCompare(t) == IF t = 1 THEN Fit16 - 1 ELSE Fit8 - 1

\* C31: whenever calc_cs returns a nonzero code, the matching calc_ocr
\* returns a compare value of at least 1 that fits the compare register
\* (1 .. 255 for Timer0 and Timer2, 1 .. 32766 for Timer1), so init
\* divides by a nonzero number and compare - 1 does not wrap.
C31_CompareInRange ==
    (Begun /\ lastBegin.cs # 0) =>
        lastBegin.ocr \in 1 .. MaxCompare(lastBegin.t)

-----------------------------------------------------------------------------
(* The width of the duty computation: C32 (DutySpec) *)

\* the product fits the intermediate of the setter of controller t:
\* 16 bits for Timer0, 32 bits for Timer1
FitsIntermediate(t, prod) ==
    IF t = 0 THEN prod < 65536 ELSE prod \div 65536 < 65536

\* C32: for a nonzero duty p <= top, top > 0, the setter forms
\* p * counterTop without overflow of its intermediate, so the compare
\* value it writes is the quotient of the full product by top, and it
\* never exceeds the counter top.
C32_DutyWithinTop ==
    DutySet =>
        LET t    == lastPwm.t
            cnt  == CounterTop(t)
            prod == lastPwm.pwm * cnt
            cmp  == CmpOf(t, lastPwm.ch)
        IN  /\ FitsIntermediate(t, prod)
            /\ cmp * lastPwm.top <= prod /\ prod < (cmp + 1) * lastPwm.top
            /\ cmp <= cnt /\ cnt = tc[t].TOP

\* full duty on Timer0 at its largest top and on Timer1 at its largest
C32_Witness ==
    /\ DutySet /\ lastPwm.pwm = lastPwm.top /\ cfgAt[lastPwm.t].ok
    /\ CounterTop(lastPwm.t) \in {249, 32652}
    /\ CmpOf(lastPwm.t, lastPwm.ch) = CounterTop(lastPwm.t)
    /\ lastPwm.pwm * CounterTop(lastPwm.t) >= 63495

-----------------------------------------------------------------------------
(* Milliseconds per tick: C33 (SlowSpec) *)

\* C33: at an achieved tick rate f <= 1000 Hz every dispatch adds exactly
\* 1000 \div f to the millisecond count, not that value modulo 256, also
\* at the rates of 1 to 3 Hz that the 16-bit counter resolves.
C33_MillisPerTickExact ==
    [][\A t \in inst :
          (/\ nDisp'[t] # nDisp[t]
           /\ cfgAt[t].ok /\ cfgAt[t].tick \in 1 .. 1000) =>
              self'[t].m_millis - self[t].m_millis
                  = 1000 \div cfgAt[t].tick]_vars

====
